---- MODULE Spec2Model ----
(***************************************************************************)
(* A model of orchpy's worker (lib/orchpy/orchpy/worker.py): the Worker    *)
(* object, connect, register_module, the call proxy created by             *)
(* @distributed (func_call), the executor (func_executor), check_arguments,*)
(* get_arguments_for_execution, store_outputs_in_objstore and main_loop.   *)
(*                                                                         *)
(* Python values are records [tag, items, ref]:                            *)
(*   int 1        [tag |-> "int",    items |-> <<"1">>,      ref |-> 0]    *)
(*   str "ab"     [tag |-> "str",    items |-> <<"a", "b">>, ref |-> 0]    *)
(*   tuple (a, b) [tag |-> "tuple",  items |-> <<"a", "b">>, ref |-> 0]    *)
(*   ObjRef r     [tag |-> "ObjRef", items |-> <<>>,         ref |-> r]    *)
(* A type descriptor is "int", "str" or "None" (the variadic sentinel).    *)
(***************************************************************************)
EXTENDS Integers, Sequences, FiniteSets, TLC

\* ------------------------------------------------------------------ bounds
\* the longest argument list a caller passes to a call proxy
MaxArgs == 2
\* the number of object references the scheduler hands out
MaxRefs == 3

\* ------------------------------------------------------------------ values
PyInt(a) == [tag |-> "int", items |-> <<a>>, ref |-> 0]
PyStr(s) == [tag |-> "str", items |-> s, ref |-> 0]
PyTuple(s) == [tag |-> "tuple", items |-> s, ref |-> 0]
ObjRef(r) == [tag |-> "ObjRef", items |-> <<>>, ref |-> r]
\* the value of "no value" slots of the model (Python's None)
PyNone == [tag |-> "NoneType", items |-> <<>>, ref |-> 0]

\* the element codes: "1" is the int 1, "a" and "b" are one-character strings
AtomTag(c) == IF c = "1" THEN "int" ELSE "str"
Atom(c) == [tag |-> AtomTag(c), items |-> <<c>>, ref |-> 0]

\* type(arg) == orchpy.lib.ObjRef
IsObjRef(v) == v.tag = "ObjRef"

\* isinstance(value, expected_type) for the descriptors int and str
isinstance(v, t) == v.tag = t

\* len(result): an int has no len()
HasLen(v) == v.tag \in {"str", "tuple"}
PyLen(v) == Len(v.items)

\* result[i], i counted from 0: a character of a str, an element of a tuple
PyGetItem(v, i) == IF v.tag = "str" THEN PyStr(<<v.items[i + 1]>>) ELSE Atom(v.items[i + 1])

\* serialization.serialize / serialization.deserialize: the capsule wraps the value
serialize(v) == [capsule |-> v]
deserialize(c) == c.capsule

\* ---------------------------------------------- the distributed functions
\* the functions declared with @distributed(arg_types, return_types)
FuncNames == {"add", "split", "vsum"}
arg_types(f) ==
  CASE f = "add" -> <<"int", "int">>
    [] f = "split" -> <<"str">>
    [] OTHER -> <<"int", "None">>
return_types(f) ==
  CASE f = "add" -> <<"int">>
    [] f = "split" -> <<"str", "str">>
    [] OTHER -> <<"int">>

\* the concrete values callers pass
CallerValues == {PyInt("1"), PyStr(<<"a">>)}
\* what a function body may return
BodyResults == {PyInt("1"), PyStr(<<"a">>), PyTuple(<<"a", "b">>)}

SeqsUpTo(S, n) == UNION {[1..k -> S] : k \in 0..n}

\* ------------------------------------------------- check_arguments (98-120)
\* len(function.arg_types > 1) compares a list with an int and takes len() of
\* the outcome: a TypeError in every Python (len() of a bool, or the comparison)
LenOfComparison == "TypeError"

\* the if/elif chain that picks expected_type for position i (from 0); the
\* outcome is a descriptor or the error the chain raises
ExpectedType(types, i) ==
  LET L == Len(types) IN
  IF i < L - 1 THEN types[i + 1]
  ELSE IF L = 0 THEN "IndexError"
  ELSE IF i = L - 1 /\ types[L] # "None" THEN types[L]
  ELSE IF types[L] = "None" THEN LenOfComparison
  ELSE "AssertionError"

IsDescriptor(e) == e \in {"int", "str"}

\* a proxy without the count check, as get_arguments_for_execution is
ArityCheck_Skipped(types, n) == "ok"

\* a count check that only refuses too many arguments
ArityCheck_OnlyTooMany(types, n) ==
  LET L == Len(types) IN
  IF L = 0 THEN (IF n # 0 THEN "IndexError" ELSE "ok")
  ELSE IF n > L /\ types[L] # "None" THEN "ArityError"
  ELSE "ok"

\* the count check of lines 100-103
ArityCheck(types, n) ==
  LET L == Len(types) IN
  IF L = 0 THEN (IF n # 0 THEN "IndexError" ELSE "ok")
  ELSE IF n # L /\ types[L] # "None" THEN "ArityError"
  ELSE IF n < L - 1 /\ types[L] = "None" THEN "ArityError"
  ELSE "ok"

\* one pass of the loop body of check_arguments for position i
CheckPosition(types, args, i) ==
  LET e == ExpectedType(types, i) IN
  IF ~IsDescriptor(e) THEN e
  ELSE IF IsObjRef(args[i + 1]) THEN "ok"
  ELSE IF ~isinstance(args[i + 1], e) THEN "TypeMismatch"
  ELSE "ok"

Min(S) == CHOOSE x \in S : \A y \in S : x <= y

\* check_arguments(function, args): "ok" or the first error raised
check_arguments(f, args) ==
  LET types == arg_types(f)
      a == ArityCheck(types, Len(args))
      bad == {i \in 0..(Len(args) - 1) : CheckPosition(types, args, i) # "ok"}
  IN IF a # "ok" THEN a
     ELSE IF bad = {} THEN "ok"
     ELSE CheckPosition(types, args, Min(bad))

\* ------------------------------------------------------------------ state
VARIABLES
  connected,   \* worker.connected
  handle,      \* worker.handle: "None", "Valid", or "Deleted" (after del)
  functions,   \* worker.functions: the names registered
  pool,        \* the scheduler's tasks not yet delivered to the worker
  nextRef,     \* the next object reference the scheduler / store allocates
  ncalls,      \* calls accepted by the scheduler so far
  store,       \* the local object store: per reference, the capsules put
  pc,          \* main_loop's position
  cur,         \* the task main_loop is working on (deserialize_call's result)
  i,           \* get_arguments_for_execution's loop index
  arguments,   \* get_arguments_for_execution's list
  outputs,     \* the executor's result
  j,           \* store_outputs_in_objstore's loop index
  started,     \* start_worker_service has been called
  fetched,     \* ids of the tasks wait_for_next_task returned, in order
  notified,    \* ids of the tasks notify_task_completed was called for
  trace,       \* main_loop's calls that have returned in this iteration
  error,       \* the error that ended main_loop, or "none"
  lastCall     \* the latest call-proxy invocation of the running caller: the
               \* function, what came of it, and the arguments handed to
               \* Worker.remote_call, if any; NoCall once that caller's code
               \* has ended (main_loop entered, the function body over)

vars == <<connected, handle, functions, pool, nextRef, ncalls, store, pc,
          cur, i, arguments, outputs, j, started, fetched, notified, trace,
          error, lastCall>>

workerVars == <<connected, handle, functions>>
loopVars == <<pc, cur, i, arguments, outputs, j, started, fetched, notified, trace, error>>

\* every reference that can be allocated within the bounds
Refs == 1..MaxRefs

NoTask == [id |-> 0, fn |-> "none", args |-> <<>>, refs |-> <<>>]
NoCall == [fn |-> "none", connected |-> FALSE, outcome |-> "none", sent |-> <<>>,
           bare |-> FALSE, refs |-> <<>>]

\* Worker.__init__ (10-13) and the module's state before main_loop
Init ==
  /\ connected = FALSE
  /\ handle = "None"
  /\ functions = {}
  /\ pool = {}
  /\ nextRef = 1
  /\ ncalls = 0
  /\ store = [r \in Refs |-> <<>>]
  /\ pc = "idle"
  /\ cur = NoTask
  /\ i = 0
  /\ arguments = <<>>
  /\ outputs = PyNone
  /\ j = 0
  /\ started = FALSE
  /\ fetched = <<>>
  /\ notified = <<>>
  /\ trace = <<>>
  /\ error = "none"
  /\ lastCall = NoCall

\* the caller's code runs before main_loop is entered, or inside a function
\* body that main_loop is executing
CallerRuns == pc \in {"idle", "execute"}

\* ------------------------------------------------------- connect (49-53)
\* orchpy.lib.create_worker returns a handle or raises
Connect ==
  /\ pc = "idle"
  /\ \/ /\ handle' = "Valid"
        /\ connected' = TRUE
     \/ /\ handle' = (IF connected THEN "Deleted" ELSE handle)
        /\ connected' = connected
  /\ UNCHANGED <<functions, pool, nextRef, ncalls, store, loopVars, lastCall>>

\* orchpy.lib refuses a handle that is not a worker capsule
LibAccepts(h) == h = "Valid"

\* ------------------------- register_module / register_function (25-28, 39-45)
RegisterModule ==
  /\ pc = "idle"
  /\ functions' = (IF LibAccepts(handle) THEN functions \cup FuncNames ELSE functions)
  /\ UNCHANGED <<connected, handle, pool, nextRef, ncalls, store, loopVars, lastCall>>

\* ----------------------------- the call proxy: func_call (84-88), remote_call
\* the scheduler's side of orchpy.lib.remote_call: one fresh reference per
\* return value registered for the function (register_function, line 27)
SchedulerObjRefs(f, next) == [k \in 1..Len(return_types(f)) |-> next + k - 1]

\* a proxy that returns the list as it came
ProxyResult_NoUnwrap(objrefs) == [bare |-> FALSE, refs |-> objrefs]

\* line 88: objrefs[0] if len(objrefs) == 1 else objrefs
ProxyResult(objrefs) ==
  IF Len(objrefs) = 1 THEN [bare |-> TRUE, refs |-> <<objrefs[1]>>]
  ELSE [bare |-> FALSE, refs |-> objrefs]

\* the arguments a caller can pass: concrete values and references it holds
ArgValues == CallerValues \cup {ObjRef(r) : r \in 1..(nextRef - 1)}

\* Worker.remote_call (30-34): the call goes to orchpy.lib with worker.handle,
\* whatever the handle is; "dispatch" or the error that comes back
remote_call(f) ==
  IF ~LibAccepts(handle) THEN "LibError"
  ELSE IF f \notin functions THEN "LibError"
  ELSE "dispatch"

\* a proxy that waits until the outputs are in the store before it returns
CallWith_Waiting(f, args) ==
  LET checked == check_arguments(f, args)
      sent == IF checked = "ok" THEN remote_call(f) ELSE checked
      objrefs == SchedulerObjRefs(f, nextRef)
      result == ProxyResult(objrefs)
  IN /\ IF sent = "dispatch"
        THEN /\ pool' = pool
             /\ nextRef' = nextRef + Len(objrefs)
             /\ ncalls' = ncalls + 1
             /\ store' = [r \in DOMAIN store |->
                            IF \E k \in DOMAIN objrefs : objrefs[k] = r
                            THEN Append(store[r], serialize(PyNone))
                            ELSE store[r]]
             /\ lastCall' = [fn |-> f, connected |-> connected, outcome |-> "returned",
                             sent |-> <<args>>, bare |-> result.bare, refs |-> result.refs]
        ELSE /\ lastCall' = [fn |-> f, connected |-> connected, outcome |-> sent,
                             sent |-> IF checked = "ok" THEN <<args>> ELSE <<>>,
                             bare |-> FALSE, refs |-> <<>>]
             /\ UNCHANGED <<pool, nextRef, ncalls, store>>
     /\ UNCHANGED <<workerVars, loopVars>>

\* func_call(*args) for the proxy of function f
CallWith(f, args) ==
  LET checked == check_arguments(f, args)
      sent == IF checked = "ok" THEN remote_call(f) ELSE checked
      objrefs == SchedulerObjRefs(f, nextRef)
      result == ProxyResult(objrefs)
  IN /\ IF sent = "dispatch"
        THEN /\ pool' = pool \cup {[id |-> ncalls + 1, fn |-> f, args |-> args, refs |-> objrefs]}
             /\ nextRef' = nextRef + Len(objrefs)
             /\ ncalls' = ncalls + 1
             /\ lastCall' = [fn |-> f, connected |-> connected, outcome |-> "returned",
                             sent |-> <<args>>, bare |-> result.bare, refs |-> result.refs]
        ELSE /\ lastCall' = [fn |-> f, connected |-> connected, outcome |-> sent,
                             sent |-> IF checked = "ok" THEN <<args>> ELSE <<>>,
                             bare |-> FALSE, refs |-> <<>>]
             /\ UNCHANGED <<pool, nextRef, ncalls>>
     /\ UNCHANGED <<workerVars, store, loopVars>>

\* the model stops handing out references at MaxRefs
RefsLeft(n) == nextRef + n - 1 <= MaxRefs

Call ==
  /\ CallerRuns
  /\ \E f \in FuncNames, args \in SeqsUpTo(ArgValues, MaxArgs) :
       /\ RefsLeft(Len(return_types(f)))
       /\ CallWith(f, args)

\* --------------------------------------------------------- main_loop (63-73)
\* a loop that catches the error and goes back to wait_for_next_task
Fail_Caught(kind) ==
  /\ pc' = "wait"
  /\ error' = kind

\* an exception leaves main_loop: nothing in 63-73 catches it
Fail(kind) ==
  /\ pc' = "error"
  /\ error' = kind

\* the connected check placed after start_worker_service
MainLoopEnter_StartFirst ==
  /\ pc = "idle"
  /\ IF ~connected THEN Fail("NotConnected") /\ started' = TRUE
     ELSE IF ~LibAccepts(handle) THEN Fail("AttributeError") /\ started' = started
     ELSE pc' = "wait" /\ started' = TRUE /\ error' = error
  /\ UNCHANGED <<workerVars, pool, nextRef, ncalls, store, cur, i, arguments,
                 outputs, j, fetched, notified, trace>>
  /\ lastCall' = NoCall

\* lines 64-66
MainLoopEnter ==
  /\ pc = "idle"
  /\ IF ~connected THEN Fail("NotConnected") /\ started' = started
     ELSE IF ~LibAccepts(handle) THEN Fail("AttributeError") /\ started' = started
     ELSE pc' = "wait" /\ started' = TRUE /\ error' = error
  /\ UNCHANGED <<workerVars, pool, nextRef, ncalls, store, cur, i, arguments,
                 outputs, j, fetched, notified, trace>>
  /\ lastCall' = NoCall

\* lines 68-70: wait_for_next_task, deserialize_call, worker.functions[func_name]
WaitForNextTask ==
  /\ pc = "wait"
  /\ \E t \in pool :
       /\ pool' = pool \ {t}
       /\ cur' = t
       /\ fetched' = Append(fetched, t.id)
       /\ trace' = <<"wait_for_next_task">>
       /\ IF t.fn \in functions THEN pc' = "resolve" /\ error' = error
          ELSE Fail("KeyError")
  /\ i' = 0
  /\ arguments' = <<>>
  /\ outputs' = PyNone
  /\ j' = 0
  /\ UNCHANGED <<workerVars, nextRef, ncalls, store, started, notified, lastCall>>

\* a get that never returns
get_object_Never(r) == {}

\* Worker.get_object (20-23): readable once something was put
Readable(r) == store[r] # <<>>
get_object(r) == {deserialize(c) : c \in {store[r][k] : k \in DOMAIN store[r]}}

\* get_arguments_for_execution (123-155): one pass of the loop, for position i
ResolveArg ==
  /\ pc = "resolve"
  /\ i < Len(cur.args)
  /\ LET arg == cur.args[i + 1]
         e == ExpectedType(arg_types(cur.fn), i)
     IN IF ~IsDescriptor(e)
        THEN Fail(e) /\ UNCHANGED <<i, arguments>>
        ELSE /\ IsObjRef(arg) => Readable(arg.ref)
             /\ \E argument \in (IF IsObjRef(arg) THEN get_object(arg.ref) ELSE {arg}) :
                  IF ~isinstance(argument, e)
                  THEN Fail("TypeMismatch") /\ UNCHANGED <<i, arguments>>
                  ELSE /\ arguments' = Append(arguments, argument)
                       /\ i' = i + 1
                       /\ UNCHANGED <<pc, error>>
  /\ UNCHANGED <<workerVars, pool, nextRef, ncalls, store, cur, outputs, j,
                 started, fetched, notified, trace, lastCall>>

\* a loop that returns one argument short
ResolveReturn_Early ==
  /\ pc = "resolve"
  /\ i >= Len(cur.args) - 1
  /\ pc' = "execute"
  /\ trace' = Append(trace, "get_arguments_for_execution")
  /\ UNCHANGED <<workerVars, pool, nextRef, ncalls, store, cur, i, arguments,
                 outputs, j, started, fetched, notified, error, lastCall>>

\* line 155: return arguments
ResolveReturn ==
  /\ pc = "resolve"
  /\ i = Len(cur.args)
  /\ pc' = "execute"
  /\ trace' = Append(trace, "get_arguments_for_execution")
  /\ UNCHANGED <<workerVars, pool, nextRef, ncalls, store, cur, i, arguments,
                 outputs, j, started, fetched, notified, error, lastCall>>

\* an executor that takes the result without counting it
ExecutorCheck_NoCount(f, result) ==
  IF Len(return_types(f)) # 1 /\ ~HasLen(result) THEN "TypeError" ELSE "ok"

\* func_executor's check of the result (81-82)
ExecutorCheck(f, result) ==
  LET N == Len(return_types(f)) IN
  IF N = 1 THEN "ok"
  ELSE IF ~HasLen(result) THEN "TypeError"
  ELSE IF PyLen(result) # N THEN "ReturnCountError"
  ELSE "ok"

\* func_executor (77-83): the body returns some result, or raises
Execute ==
  /\ pc = "execute"
  /\ \/ \E result \in BodyResults :
          LET c == ExecutorCheck(cur.fn, result) IN
          IF c = "ok"
          THEN /\ outputs' = result
               /\ pc' = "store"
               /\ trace' = Append(trace, "executor")
               /\ error' = error
          ELSE Fail(c) /\ UNCHANGED <<outputs, trace>>
     \/ Fail("BodyError") /\ UNCHANGED <<outputs, trace>>
  /\ UNCHANGED <<workerVars, pool, nextRef, ncalls, store, cur, i, arguments,
                 j, started, fetched, notified>>
  /\ lastCall' = NoCall

\* a loop that walks the result from its end
StoredValue_Reversed(objrefs, result, k) ==
  IF Len(objrefs) = 1 THEN result ELSE PyGetItem(result, Len(objrefs) - 1 - k)

\* a store that unpacks the result whatever the number of references
StoredValue_Unpack(objrefs, result, k) == PyGetItem(result, k)

\* store_outputs_in_objstore (158-163): what is put for position k (from 0)
StoredValue(objrefs, result, k) ==
  IF Len(objrefs) = 1 THEN result ELSE PyGetItem(result, k)

\* a put that writes the value and then writes None over it
put_object_Twice(r, value) ==
  store' = [store EXCEPT ![r] = Append(Append(@, serialize(value)), serialize(PyNone))]

\* Worker.put_object (15-18)
put_object(r, value) == store' = [store EXCEPT ![r] = Append(@, serialize(value))]

\* objrefs[0] used for every position
PutTarget_AlwaysFirst(objrefs, k) == objrefs[1]

\* the reference position k (from 0) is put under: objrefs[0], objrefs[i]
PutTarget(objrefs, k) == objrefs[k + 1]

\* a loop that returns after its first put
LastPut_AfterFirst(objrefs, k) == k + 1 >= 1

\* store_outputs_in_objstore has put everything once position k is done
LastPut(objrefs, k) == k + 1 >= Len(objrefs)

\* store_outputs_in_objstore: one put_object call
StoreOutput ==
  /\ pc = "store"
  /\ put_object(PutTarget(cur.refs, j), StoredValue(cur.refs, outputs, j))
  /\ IF LastPut(cur.refs, j)
     THEN /\ pc' = "notify"
          /\ trace' = Append(trace, "store_outputs_in_objstore")
          /\ j' = j
     ELSE /\ j' = j + 1
          /\ UNCHANGED <<pc, trace>>
  /\ UNCHANGED <<workerVars, pool, nextRef, ncalls, cur, i, arguments, outputs,
                 started, fetched, notified, error, lastCall>>

\* a loop that goes back to the top without calling notify_task_completed
Notify_Skipped ==
  /\ pc = "notify"
  /\ pc' = "wait"
  /\ UNCHANGED <<workerVars, pool, nextRef, ncalls, store, cur, i, arguments,
                 outputs, j, started, fetched, notified, trace, error, lastCall>>

\* line 73: notify_task_completed, and back to the top of the loop
Notify ==
  /\ pc = "notify"
  /\ notified' = Append(notified, cur.id)
  /\ trace' = Append(trace, "notify_task_completed")
  /\ pc' = "wait"
  /\ UNCHANGED <<workerVars, pool, nextRef, ncalls, store, cur, i, arguments,
                 outputs, j, started, fetched, error, lastCall>>

Next ==
  \/ Connect
  \/ RegisterModule
  \/ Call
  \/ MainLoopEnter
  \/ WaitForNextTask
  \/ ResolveArg
  \/ ResolveReturn
  \/ Execute
  \/ StoreOutput
  \/ Notify

Spec == Init /\ [][Next]_vars

\* main_loop is one sequential thread that keeps running: once it has a task,
\* each of its steps is taken as soon as it can be (a function body that
\* returns or raises is part of that). What the scheduler delivers, and when,
\* is not assumed.
MainLoopProgress ==
  /\ WF_vars(ResolveArg)
  /\ WF_vars(ResolveReturn)
  /\ WF_vars(Execute)
  /\ WF_vars(StoreOutput)
  /\ WF_vars(Notify)

FairSpec == Spec /\ MainLoopProgress

\* ------------------------------------------------------------- properties
IsPrefix(p, q) == Len(p) <= Len(q) /\ \A k \in 1..Len(p) : p[k] = q[k]
Range(q) == {q[k] : k \in DOMAIN q}

\* main_loop's calls of one iteration, in the order of lines 68-73
MainLoopSteps == <<"wait_for_next_task", "get_arguments_for_execution", "executor",
                   "store_outputs_in_objstore", "notify_task_completed">>

AllWritten(objrefs) == \A k \in DOMAIN objrefs : Readable(objrefs[k])

\* C1: for every task main_loop fetches, the steps wait_for_next_task,
\* get_arguments_for_execution, executor, store_outputs_in_objstore,
\* notify_task_completed happen in that order with none skipped, and
\* notify_task_completed is called for a task only after its executor has
\* returned and every one of its output references has been written.
C1_StepsInOrder ==
  /\ IsPrefix(trace, MainLoopSteps)
  /\ pc = "resolve" => Len(trace) = 1
  /\ pc = "execute" => Len(trace) = 2
  /\ pc = "store" => Len(trace) = 3
  /\ pc = "notify" => Len(trace) = 4
  /\ pc = "wait" => Len(trace) \in {0, 5}
  /\ \A k \in DOMAIN notified :
       /\ notified[k] \in Range(fetched)
       /\ notified[k] = cur.id => /\ trace = MainLoopSteps
                                  /\ outputs # PyNone
                                  /\ AllWritten(cur.refs)
  /\ trace = MainLoopSteps => notified # <<>> /\ notified[Len(notified)] = cur.id

\* a two-output task has been notified
C1_Witness ==
  /\ trace = MainLoopSteps
  /\ Len(cur.refs) = 2
  /\ cur.id \in Range(notified)

\* C2: within one worker the tasks are notified in exactly the order they are
\* fetched, and at most one task is in flight: wait_for_next_task is not
\* called for the next task before notify_task_completed was called for this
\* one (fetched minus notified is always 0 or 1).
C2_OneInFlight ==
  /\ IsPrefix(notified, fetched)
  /\ Len(fetched) - Len(notified) \in {0, 1}
  /\ pc = "wait" => Len(fetched) = Len(notified)
  /\ pc \in {"resolve", "execute", "store", "notify"} =>
       /\ Len(fetched) = Len(notified) + 1
       /\ fetched[Len(fetched)] = cur.id

\* a second task is in flight after the first was notified, the scheduler
\* having delivered the later call first
C2_Witness ==
  /\ Len(notified) = 1
  /\ Len(fetched) = 2
  /\ fetched[1] > fetched[2]
  /\ pc = "execute"

\* C3: put_object is called at most once for any object reference, and
\* exactly once for every output reference of a task that reaches the notify
\* step.
C3_WriteOnce ==
  /\ \A r \in Refs : Len(store[r]) <= 1
  /\ (pc = "notify" \/ cur.id \in Range(notified)) =>
       \A k \in DOMAIN cur.refs : Len(store[cur.refs[k]]) = 1

\* both references of a two-output task are written, the task is at notify
C3_Witness ==
  /\ pc = "notify"
  /\ Len(cur.refs) = 2
  /\ \A k \in DOMAIN cur.refs : Len(store[cur.refs[k]]) = 1

\* C4: main_loop on a worker that is not connected signals the connection
\* error before anything else: the worker service is not started, no task is
\* waited for, no executor runs, nothing is put and nothing is notified.
C4_NotConnectedFirst ==
  error = "NotConnected" =>
    /\ pc = "error"
    /\ ~started
    /\ fetched = <<>>
    /\ trace = <<>>
    /\ notified = <<>>
    /\ cur = NoTask
    /\ outputs = PyNone
    /\ \A r \in Refs : store[r] = <<>>

\* main_loop was entered on a worker that never connected
C4_Witness == error = "NotConnected" /\ ~connected /\ handle = "None"

\* what func_call can raise before it reaches Worker.remote_call
CheckErrors == {"ArityError", "TypeMismatch", "TypeError", "IndexError", "AssertionError"}
\* func_call got as far as Worker.remote_call
ReachedRemoteCall(c) == c.outcome \notin (CheckErrors \cup {"none"})

\* C5: a dispatch that reaches Worker.remote_call before the worker has been
\* connected signals a ConnectionError raised by the worker itself, and no
\* call is handed to the scheduler.
C5_DispatchNeedsConnection ==
  (ReachedRemoteCall(lastCall) /\ ~lastCall.connected) =>
    /\ lastCall.outcome = "ConnectionError"
    /\ pool = {}
    /\ ncalls = 0

\* C6: a successful invocation of the proxy of a function declared with N
\* return types returns exactly N object references as a sequence when N > 1,
\* and one bare reference (not a sequence of one) when N = 1.
C6_ReturnShape ==
  lastCall.outcome = "returned" =>
    LET N == Len(return_types(lastCall.fn)) IN
    /\ Len(lastCall.refs) = N
    /\ lastCall.bare <=> N = 1
    /\ \A k, m \in DOMAIN lastCall.refs : k # m => lastCall.refs[k] # lastCall.refs[m]

\* the proxy of a one-output function has just returned a bare reference
C6_Witness ==
  /\ lastCall.outcome = "returned"
  /\ Len(return_types(lastCall.fn)) = 1
  /\ lastCall.bare

\* the declared arity and descriptors, as the documentation states them
HasSentinel(types) == Len(types) > 0 /\ types[Len(types)] = "None"
ArityViolated(types, n) ==
  IF HasSentinel(types) THEN n < Len(types) - 1 ELSE n # Len(types)
\* the descriptor of position k (from 0): the one before the sentinel for
\* every position from the sentinel's on
DeclaredDescriptor(types, k) ==
  IF HasSentinel(types) /\ k >= Len(types) - 1 THEN types[Len(types) - 1]
  ELSE types[k + 1]
ValueViolated(types, args) ==
  \E k \in 0..(Len(args) - 1) :
    /\ ~IsObjRef(args[k + 1])
    /\ ~isinstance(args[k + 1], DeclaredDescriptor(types, k))
CallViolates(f, args) ==
  \/ ArityViolated(arg_types(f), Len(args))
  \/ /\ ~ArityViolated(arg_types(f), Len(args))
     /\ ValueViolated(arg_types(f), args)

\* the tasks the scheduler was handed and has not seen completed
TasksHanded == pool \cup (IF cur = NoTask THEN {} ELSE {cur})

C8_VariadicAccepted ==
  [][\A f \in FuncNames : \A args \in SeqsUpTo(ArgValues, MaxArgs) :
       (/\ CallWith(f, args)
        /\ HasSentinel(arg_types(f))
        /\ Len(arg_types(f)) >= 2
        /\ Len(args) >= Len(arg_types(f)) - 1
        /\ \A k \in DOMAIN args : ~IsObjRef(args[k])
        /\ ~ValueViolated(arg_types(f), args)
        /\ LibAccepts(handle)
        /\ f \in functions) =>
         lastCall'.outcome = "returned"]_vars

\* C9: an object-reference argument is accepted unconditionally by the
\* call-time check and the call is dispatched: a call of the right arity
\* that passes at least one reference, and whose concrete values are all
\* compatible and sit before the sentinel's position, is dispatched (on a
\* connected worker that has the function registered).
C9_ReferenceAccepted ==
  [][\A f \in FuncNames : \A args \in SeqsUpTo(ArgValues, MaxArgs) :
       (/\ CallWith(f, args)
        /\ ~CallViolates(f, args)
        /\ \E k \in DOMAIN args : IsObjRef(args[k])
        /\ \A k \in DOMAIN args : ~IsObjRef(args[k]) => k < Len(arg_types(f))
        /\ LibAccepts(handle)
        /\ f \in functions) =>
         lastCall'.outcome = "returned"]_vars

\* C10: with one output reference the whole result (a tuple too) is put as one
\* value under it; with N > 1, element i of the result is put under output
\* reference i; nothing else is put.
C10_OutputMapping ==
  /\ pc = "notify" =>
       \A k \in DOMAIN cur.refs :
         store[cur.refs[k]] =
           <<serialize(IF Len(cur.refs) = 1 THEN outputs ELSE PyGetItem(outputs, k - 1))>>
  /\ pc = "store" =>
       \A k \in DOMAIN cur.refs :
         IF k <= j
         THEN store[cur.refs[k]] = <<serialize(PyGetItem(outputs, k - 1))>>
         ELSE store[cur.refs[k]] = <<>>
  /\ pc \in {"resolve", "execute"} => \A k \in DOMAIN cur.refs : store[cur.refs[k]] = <<>>
  /\ \A t \in pool : \A k \in DOMAIN t.refs : store[t.refs[k]] = <<>>
  /\ \A r \in Refs : r >= nextRef => store[r] = <<>>

\* a tuple result was put whole under the single output reference
C10_Witness ==
  /\ pc = "notify"
  /\ Len(cur.refs) = 1
  /\ outputs.tag = "tuple"
  /\ store[cur.refs[1]] = <<serialize(outputs)>>

\* the task has been through main_loop, notify_task_completed included
Completed(t) == t # NoTask /\ t.id \in Range(notified)

\* what get yields for output k (from 1) of a task whose body returned result
ExpectedOutput(t, result, k) ==
  IF Len(t.refs) = 1 THEN result ELSE PyGetItem(result, k - 1)

\* C11: the references a call proxy returns are exactly the output references
\* of the task the scheduler holds for that call (same function, same
\* arguments), and once main_loop has executed a task, get on each of its
\* output references yields the corresponding part of what the function body
\* returned for the resolved arguments: the whole result for one output, part
\* k for output k of several.
C11_EndToEnd ==
  /\ lastCall.outcome = "returned" =>
       \E t \in pool :
         /\ t.fn = lastCall.fn
         /\ t.args = lastCall.sent[1]
         /\ t.refs = lastCall.refs
         /\ t.id = ncalls
  /\ Completed(cur) =>
       /\ \A k \in DOMAIN cur.refs :
            get_object(cur.refs[k]) = {ExpectedOutput(cur, outputs, k)}
       /\ Len(arguments) = Len(cur.args)
       /\ \A k \in DOMAIN cur.args :
            IF IsObjRef(cur.args[k])
            THEN get_object(cur.args[k].ref) = {arguments[k]}
            ELSE arguments[k] = cur.args[k]

\* a split task has completed and get yields its two parts in order
C11_Witness ==
  /\ Completed(cur)
  /\ cur.fn = "split"
  /\ outputs = PyTuple(<<"a", "b">>)
  /\ get_object(cur.refs[1]) = {PyStr(<<"a">>)}
  /\ get_object(cur.refs[2]) = {PyStr(<<"b">>)}
C13_NonBlockingDispatch ==
  lastCall.outcome = "returned" =>
    /\ \A k \in DOMAIN lastCall.refs : ~Readable(lastCall.refs[k])
    /\ ncalls \notin Range(fetched)
    /\ \E t \in pool : t.id = ncalls
    /\ cur # NoTask => cur.id # ncalls

\* a proxy called from inside an executing task has returned, and the
\* reference it returned is unwritten
C13_Witness ==
  /\ pc = "execute"
  /\ lastCall.outcome = "returned"
  /\ lastCall.refs # <<>>
  /\ ~Readable(lastCall.refs[1])
  /\ cur.id < ncalls
\* C14: resolving a reference is idempotent: a written reference resolves to
\* exactly one value, and no step of the program (puts to other references
\* included) changes the value it resolves to, so every resolution of it, in
\* one task or across tasks, yields the identical value; the arguments a task
\* got from references are the values those references still resolve to.
C14_ResolutionIdempotent ==
  [][/\ \A r \in Refs :
          Readable(r) =>
            /\ Cardinality(get_object(r)) = 1
            /\ get_object(r)' = get_object(r)
     /\ \A k \in DOMAIN arguments' :
          IsObjRef(cur'.args[k]) =>
            {deserialize(c) : c \in Range(store'[cur'.args[k].ref])} = {arguments'[k]}
    ]_vars

\* one task resolved the same reference for both of its arguments, after
\* another reference had been written
C14_Witness ==
  /\ pc = "execute"
  /\ Len(cur.args) = 2
  /\ IsObjRef(cur.args[1])
  /\ cur.args[2] = cur.args[1]
  /\ arguments[1] = arguments[2]
  /\ \E r \in Refs : r # cur.args[1].ref /\ Readable(r)
\* main_loop has resolved the arguments of the current task and called the
\* executor
ExecutorCalled ==
  cur # NoTask /\ Len(trace) >= 2 /\ trace[2] = "get_arguments_for_execution"

\* C15: for a function with N # 1 declared return values, a body result whose
\* number of outputs differs from N makes the executor signal an error: the
\* task never reaches store_outputs_in_objstore, none of its output
\* references is written and its completion is not notified. For N = 1 the
\* executor checks no count: the only error it lets out is the body's own.
C15_OutputArityCheck ==
  LET N == Len(cur.refs) IN
  /\ (ExecutorCalled /\ pc # "execute" /\ pc # "error" /\ N # 1) =>
       HasLen(outputs) /\ PyLen(outputs) = N
  /\ (pc = "error" /\ error = "ReturnCountError") =>
       /\ ExecutorCalled
       /\ N # 1
       /\ \A k \in DOMAIN cur.refs : ~Readable(cur.refs[k])
       /\ cur.id \notin Range(notified)
       /\ Len(trace) = 2
  /\ (pc = "error" /\ ExecutorCalled /\ N = 1) => error = "BodyError"

\* the body of split returned a string of one character for two declared
\* return values, and the executor raised
C15_Witness ==
  /\ pc = "error"
  /\ error = "ReturnCountError"
  /\ cur.fn = "split"
  /\ ~Readable(cur.refs[1])
  /\ ~Readable(cur.refs[2])
\* get_arguments_for_execution stands at a reference nobody has written
BlockedOnReference ==
  /\ pc = "resolve"
  /\ i < Len(cur.args)
  /\ IsDescriptor(ExpectedType(arg_types(cur.fn), i))
  /\ IsObjRef(cur.args[i + 1])
  /\ ~Readable(cur.args[i + 1].ref)

\* C16: main_loop calls the executor only when every argument of the task
\* has been resolved and type-checked, so no object-reference argument of an
\* executing task is unwritten. Arguments are resolved in positional order
\* (during resolution exactly the first i are done, all of them written), and
\* at an unwritten reference the resolution waits: it neither moves on nor
\* fails.
C16_ExecuteAfterResolution ==
  /\ (pc = "execute" \/ ExecutorCalled) =>
       /\ i = Len(cur.args)
       /\ Len(arguments) = Len(cur.args)
       /\ \A k \in DOMAIN cur.args :
            /\ IsObjRef(cur.args[k]) => Readable(cur.args[k].ref)
            /\ ~IsObjRef(arguments[k])
            /\ isinstance(arguments[k], ExpectedType(arg_types(cur.fn), k - 1))
  /\ pc = "resolve" =>
       /\ i <= Len(cur.args)
       /\ Len(arguments) = i
       /\ \A k \in 1..i : IsObjRef(cur.args[k]) => Readable(cur.args[k].ref)
  /\ BlockedOnReference => ~ENABLED (ResolveArg \/ ResolveReturn \/ Execute)

\* the executor is about to run split on a string it got from a reference
C16_Witness ==
  /\ pc = "execute"
  /\ cur.fn = "split"
  /\ Len(cur.args) = 1
  /\ IsObjRef(cur.args[1])
  /\ arguments = <<PyStr(<<"a">>)>>
\* C17: an error signalled in main_loop is fatal and nothing is retried: once
\* an iteration has signalled an error (a type mismatch at resolution, an
\* error out of the executor, or any other), the task it was working on has
\* no output written and is not notified complete, it is the last task the
\* worker fetched, and the worker takes no further step: no fetch, no
\* execution, no store, no notification.
C17_ErrorsAreFatal ==
  [][/\ error' # "none" =>
          /\ pc' = "error"
          /\ cur' # NoTask =>
               /\ \A k \in DOMAIN cur'.refs : store'[cur'.refs[k]] = <<>>
               /\ cur'.id \notin Range(notified')
               /\ fetched'[Len(fetched')] = cur'.id
     /\ pc = "error" =>
          /\ pc' = "error"
          /\ UNCHANGED <<store, fetched, notified, trace, cur, outputs, pool>>
    ]_vars

\* a type mismatch at resolution stopped the worker with another task still
\* waiting at the scheduler
C17_Witness ==
  /\ pc = "error"
  /\ error = "TypeMismatch"
  /\ pool # {}
  /\ \A k \in DOMAIN cur.refs : ~Readable(cur.refs[k])
  /\ cur.id \notin Range(notified)
\* C18: in every reachable state the worker has a connection handle exactly
\* when its connected flag is true, whatever connect calls were made,
\* repeated ones and failed ones included.
C18_HandleIffConnected == (handle = "Valid") <=> connected
ArgumentsAvailable(t) ==
  \A k \in DOMAIN t.args : IsObjRef(t.args[k]) => Readable(t.args[k].ref)

\* main_loop has a task and has something to do with it
MainLoopCanStep == ENABLED (ResolveArg \/ ResolveReturn \/ Execute \/ StoreOutput \/ Notify)

\* C19: on a connected worker running main_loop, a delivered task whose
\* object-reference arguments are all written (in the store already, or
\* outputs of tasks delivered earlier) is eventually notified complete,
\* unless a resolution or executor error ends the loop; and a worker in
\* main_loop that has not signalled an error can always take its next step,
\* except when it waits for the next task or for a reference that is not
\* written.
C19_DeliveredTasksComplete ==
  /\ [](pc \in {"wait", "resolve", "execute", "store", "notify"} =>
          \/ MainLoopCanStep
          \/ pc = "wait"
          \/ BlockedOnReference)
  /\ \A id \in 1..MaxRefs :
       (pc = "resolve" /\ cur.id = id /\ ArgumentsAvailable(cur))
         ~> (id \in Range(notified) \/ pc = "error")

\* a task that took the output of an earlier task as its argument has been
\* notified complete
C19_Witness ==
  /\ Completed(cur)
  /\ Len(notified) >= 2
  /\ \E k \in DOMAIN cur.args : IsObjRef(cur.args[k])
  /\ connected
====
